---- MODULE Spec2Model ----
(***************************************************************************)
(* Model of the CC_project compiler pipeline:                              *)
(*   lexer.py (PLY lexer)  ->  parser.py (PLY LALR parser, AST)            *)
(*   ->  semantic.py (scope chain diagnostics)                             *)
(*   ->  ir_generator.py (llvmlite IR builder)                             *)
(*   ->  assembly_generator.py (regex-driven x86-64 backend)               *)
(* driven by main.py.  Each stage is a pure function of its input and of   *)
(* the little state it shares with the other stages (the lexer's line      *)
(* counter, the files on disk); each is an operator here and the driver's  *)
(* steps are the actions.                                                  *)
(***************************************************************************)
EXTENDS Integers, Sequences, FiniteSets, TLC

\* ------------------------------------------------------------------------
\* Generic helpers
\* ------------------------------------------------------------------------
Last(s) == s[Len(s)]

Front(s) == SubSeq(s, 1, Len(s) - 1)

RECURSIVE Flatten(_)
Flatten(ss) == IF ss = <<>> THEN <<>> ELSE Head(ss) \o Flatten(Tail(ss))

Range(s) == { s[i] : i \in DOMAIN s }

\* ------------------------------------------------------------------------
\* lexer.py
\* ------------------------------------------------------------------------
\* Character classes of the token regular expressions.
Letters ==
  { "a", "b", "c", "d", "e", "f", "g", "h", "i", "j", "k", "l", "m",
    "n", "o", "p", "q", "r", "s", "t", "u", "v", "w", "x", "y", "z",
    "A", "B", "C", "D", "E", "F", "G", "H", "I", "J", "K", "L", "M",
    "N", "O", "P", "Q", "R", "S", "T", "U", "V", "W", "X", "Y", "Z", "_" }

Digits == { "0", "1", "2", "3", "4", "5", "6", "7", "8", "9" }

DigitVal ==
  ( "0" :> 0 @@ "1" :> 1 @@ "2" :> 2 @@ "3" :> 3 @@ "4" :> 4 @@
    "5" :> 5 @@ "6" :> 6 @@ "7" :> 7 @@ "8" :> 8 @@ "9" :> 9 )

\* reserved: keyword text -> token type
reserved ==
  ( "if" :> "IF" @@ "else" :> "ELSE" @@ "while" :> "WHILE" @@ "for" :> "FOR" @@
    "def" :> "DEF" @@ "return" :> "RETURN" @@ "int" :> "INT" @@
    "function" :> "FUNCTION" )

\* The single-character tokens defined by strings (t_PLUS ... t_GT).
SimpleTokens ==
  ( "+" :> "PLUS" @@ "-" :> "MINUS" @@ "*" :> "TIMES" @@ "/" :> "DIVIDE" @@
    "(" :> "LPAREN" @@ ")" :> "RPAREN" @@ ";" :> "SEMI" @@ "=" :> "EQUALS" @@
    "," :> "COMMA" @@ "{" :> "LBRACE" @@ "}" :> "RBRACE" @@ ">" :> "GT" )

\* t_ignore
t_ignore == { " ", "\t" }

\* The source text is a string; Ch is the character at a 1-based position.
Ch(data, i) == SubSeq(data, i, i)

\* End (exclusive) of the longest run of characters of class C starting at i.
RECURSIVE RunEnd(_, _, _)
RunEnd(data, i, C) ==
  IF i <= Len(data) /\ Ch(data, i) \in C THEN RunEnd(data, i + 1, C) ELSE i

\* The text from i to j-1 as one string.
Text(data, i, j) == SubSeq(data, i, j - 1)

\* int(t.value) of the digit run from i to j-1.
RECURSIVE IntOf(_, _, _)
IntOf(data, i, j) ==
  IF i >= j THEN 0 ELSE IntOf(data, i, j - 1) * 10 + DigitVal[Ch(data, j - 1)]

\* Number of newlines in from i to j-1  (t.value.count('\n')).
RECURSIVE CountNewlines(_, _, _)
CountNewlines(data, i, j) ==
  IF i >= j THEN 0
  ELSE (IF Ch(data, i) = "\n" THEN 1 ELSE 0) + CountNewlines(data, i + 1, j)

\* t_IDENTIFIER: [A-Za-z_][A-Za-z0-9_]*, reclassified through reserved.
t_IDENTIFIER(data, pos, lineno) ==
  LET e == RunEnd(data, pos, Letters \cup Digits)
      v == Text(data, pos, e)
  IN  [ tok  |-> [ type   |-> IF v \in DOMAIN reserved THEN reserved[v]
                              ELSE "IDENTIFIER",
                   value  |-> v,
                   lineno |-> lineno ],
        next |-> e ]

\* t_NUMBER: \d+(\.\d+)? ; the value is int(...) or, with a decimal point,
\* float(...), kept here as the pair <<whole, fraction digits>>.
t_NUMBER(data, pos, lineno) ==
  LET e  == RunEnd(data, pos, Digits)
      fr == e + 1 <= Len(data) /\ Ch(data, e) = "." /\ Ch(data, e + 1) \in Digits
      e2 == IF fr THEN RunEnd(data, e + 1, Digits) ELSE e
  IN  [ tok  |-> [ type   |-> "NUMBER",
                   value  |-> IF fr THEN << IntOf(data, pos, e), Text(data, e + 1, e2) >>
                              ELSE IntOf(data, pos, e),
                   lineno |-> lineno ],
        next |-> e2 ]

\* t_COMMENT_SINGLELINE: //.*   ('.' does not match a newline)
CommentSingleEnd(data, pos) ==
  RunEnd(data, pos, { Ch(data, k) : k \in pos..Len(data) } \ { "\n" })

\* t_COMMENT_MULTILINE: /\*(.|\n)*?\*/  -- the set of positions where a
\* closing */ starts; the non-greedy match ends at the first of them.
CommentMultiClosers(data, pos) ==
  { k \in (pos + 2)..(Len(data) - 1) : Ch(data, k) = "*" /\ Ch(data, k + 1) = "/" }

\* lex.Lexer.token(): the next token at or after lexpos, or NoToken at the
\* end of the input.  The rules are tried in PLY's order: ignored characters,
\* then the function rules in definition order (t_IDENTIFIER, t_NUMBER, the
\* two comment rules, t_newline), then the string rules by decreasing regex
\* length (so '->' before '-'), then t_error, which prints the character and
\* the line and skips one character.  The result carries the new lexpos and
\* lineno and the lines t_error printed on the way.
NoToken == [ type |-> "", value |-> "", lineno |-> 0 ]

RECURSIVE token(_, _, _, _)
token(data, lexpos, lineno, errs) ==
  LET pos == RunEnd(data, lexpos, t_ignore)
      c   == Ch(data, pos)
      nxt == Ch(data, pos + 1)
      done(tok, next) ==
        [ tok |-> tok, lexpos |-> next, lineno |-> lineno, errs |-> errs ]
  IN
  CASE pos > Len(data) -> done(NoToken, pos)
    [] pos <= Len(data) /\ c \in Letters ->
         LET r == t_IDENTIFIER(data, pos, lineno) IN done(r.tok, r.next)
    [] pos <= Len(data) /\ c \in Digits ->
         LET r == t_NUMBER(data, pos, lineno) IN done(r.tok, r.next)
    [] pos < Len(data) /\ c = "/" /\ nxt = "/" ->
         token(data, CommentSingleEnd(data, pos), lineno, errs)
    [] pos < Len(data) /\ c = "/" /\ nxt = "*"
         /\ CommentMultiClosers(data, pos) # {} ->
         LET k == CHOOSE k \in CommentMultiClosers(data, pos) :
                    \A j \in CommentMultiClosers(data, pos) : k <= j
         IN  token(data, k + 2, lineno + CountNewlines(data, pos, k + 2), errs)
    [] pos <= Len(data) /\ c = "\n" ->
         \* t_newline: \n+ ; lineno += len(t.value)
         LET e == RunEnd(data, pos, { "\n" })
         IN  token(data, e, lineno + (e - pos), errs)
    [] pos < Len(data) /\ c = "-" /\ nxt = ">" ->
         done([ type |-> "ARROW", value |-> "->", lineno |-> lineno ], pos + 2)
    [] pos <= Len(data) /\ c \in DOMAIN SimpleTokens
         /\ ~ (c = "/" /\ pos < Len(data)
                /\ (nxt = "/" \/ (nxt = "*" /\ CommentMultiClosers(data, pos) # {})))
         /\ ~ (c = "-" /\ pos < Len(data) /\ nxt = ">") ->
         done([ type |-> SimpleTokens[c], value |-> c, lineno |-> lineno ], pos + 1)
    [] OTHER ->
         \* t_error
         token(data, pos + 1, lineno,
               Append(errs, [ kind |-> "IllegalCharacter", what |-> c,
                              line |-> lineno, at |-> "t_error" ]))

\* ------------------------------------------------------------------------
\* parser.py
\* ------------------------------------------------------------------------
\* ASTNode(nodetype, children, leaf); a leaf of None is the empty string,
\* which no identifier can be.
NoLeaf == ""

ASTNode(nodetype, children, leaf) ==
  [ nodetype |-> nodetype, children |-> children, leaf |-> leaf ]

\* The value None where an AST is expected (parser.parse() after an error).
NoneNode == ASTNode("None", <<>>, NoLeaf)

\* The grammar rules, numbered in the order the p_ functions list them.
LRAction ==
  <<
  (* state  0 *) ("FUNCTION" :> 9 @@ "IDENTIFIER" :> 5 @@ "IF" :> 7 @@ "INT" :> 4 @@ "LPAREN" :> 10 @@ "NUMBER" :> 11 @@ "RETURN" :> 8),
  (* state  1 *) ("$end" :> 0),
  (* state  2 *) ("$end" :> -1 @@ "FUNCTION" :> 9 @@ "IDENTIFIER" :> 5 @@ "IF" :> 7 @@ "INT" :> 4 @@ "LPAREN" :> 10 @@ "NUMBER" :> 11 @@ "RETURN" :> 8),
  (* state  3 *) ("$end" :> -3 @@ "FUNCTION" :> -3 @@ "IDENTIFIER" :> -3 @@ "IF" :> -3 @@ "INT" :> -3 @@ "LPAREN" :> -3 @@ "NUMBER" :> -3 @@ "RBRACE" :> -3 @@ "RETURN" :> -3),
  (* state  4 *) ("IDENTIFIER" :> 60),
  (* state  5 *) ("DIVIDE" :> -28 @@ "EQUALS" :> 57 @@ "GT" :> -28 @@ "LPAREN" :> 25 @@ "MINUS" :> -28 @@ "PLUS" :> -28 @@ "SEMI" :> -28 @@ "TIMES" :> -28),
  (* state  6 *) ("DIVIDE" :> 17 @@ "GT" :> 18 @@ "MINUS" :> 15 @@ "PLUS" :> 14 @@ "SEMI" :> 56 @@ "TIMES" :> 16),
  (* state  7 *) ("LPAREN" :> 50),
  (* state  8 *) ("IDENTIFIER" :> 12 @@ "LPAREN" :> 10 @@ "NUMBER" :> 11),
  (* state  9 *) ("IDENTIFIER" :> 32),
  (* state 10 *) ("IDENTIFIER" :> 12 @@ "LPAREN" :> 10 @@ "NUMBER" :> 11),
  (* state 11 *) ("COMMA" :> -27 @@ "DIVIDE" :> -27 @@ "GT" :> -27 @@ "MINUS" :> -27 @@ "PLUS" :> -27 @@ "RPAREN" :> -27 @@ "SEMI" :> -27 @@ "TIMES" :> -27),
  (* state 12 *) ("COMMA" :> -28 @@ "DIVIDE" :> -28 @@ "GT" :> -28 @@ "LPAREN" :> 25 @@ "MINUS" :> -28 @@ "PLUS" :> -28 @@ "RPAREN" :> -28 @@ "SEMI" :> -28 @@ "TIMES" :> -28),
  (* state 13 *) ("DIVIDE" :> 17 @@ "GT" :> 18 @@ "MINUS" :> 15 @@ "PLUS" :> 14 @@ "RPAREN" :> 19 @@ "TIMES" :> 16),
  (* state 14 *) ("IDENTIFIER" :> 12 @@ "LPAREN" :> 10 @@ "NUMBER" :> 11),
  (* state 15 *) ("IDENTIFIER" :> 12 @@ "LPAREN" :> 10 @@ "NUMBER" :> 11),
  (* state 16 *) ("IDENTIFIER" :> 12 @@ "LPAREN" :> 10 @@ "NUMBER" :> 11),
  (* state 17 *) ("IDENTIFIER" :> 12 @@ "LPAREN" :> 10 @@ "NUMBER" :> 11),
  (* state 18 *) ("IDENTIFIER" :> 12 @@ "LPAREN" :> 10 @@ "NUMBER" :> 11),
  (* state 19 *) ("COMMA" :> -26 @@ "DIVIDE" :> -26 @@ "GT" :> -26 @@ "MINUS" :> -26 @@ "PLUS" :> -26 @@ "RPAREN" :> -26 @@ "SEMI" :> -26 @@ "TIMES" :> -26),
  (* state 20 *) ("COMMA" :> -25 @@ "DIVIDE" :> 17 @@ "GT" :> 18 @@ "MINUS" :> 15 @@ "PLUS" :> 14 @@ "RPAREN" :> -25 @@ "SEMI" :> -25 @@ "TIMES" :> 16),
  (* state 21 *) ("COMMA" :> -24 @@ "DIVIDE" :> 17 @@ "GT" :> 18 @@ "MINUS" :> 15 @@ "PLUS" :> 14 @@ "RPAREN" :> -24 @@ "SEMI" :> -24 @@ "TIMES" :> 16),
  (* state 22 *) ("COMMA" :> -23 @@ "DIVIDE" :> 17 @@ "GT" :> 18 @@ "MINUS" :> 15 @@ "PLUS" :> 14 @@ "RPAREN" :> -23 @@ "SEMI" :> -23 @@ "TIMES" :> 16),
  (* state 23 *) ("COMMA" :> -22 @@ "DIVIDE" :> 17 @@ "GT" :> 18 @@ "MINUS" :> 15 @@ "PLUS" :> 14 @@ "RPAREN" :> -22 @@ "SEMI" :> -22 @@ "TIMES" :> 16),
  (* state 24 *) ("COMMA" :> -21 @@ "DIVIDE" :> 17 @@ "GT" :> 18 @@ "MINUS" :> 15 @@ "PLUS" :> 14 @@ "RPAREN" :> -21 @@ "SEMI" :> -21 @@ "TIMES" :> 16),
  (* state 25 *) ("COMMA" :> -16 @@ "IDENTIFIER" :> 12 @@ "LPAREN" :> 10 @@ "NUMBER" :> 11 @@ "RPAREN" :> -16),
  (* state 26 *) ("COMMA" :> 30 @@ "RPAREN" :> 29),
  (* state 27 *) ("COMMA" :> -19 @@ "DIVIDE" :> 17 @@ "GT" :> 18 @@ "MINUS" :> 15 @@ "PLUS" :> 14 @@ "RPAREN" :> -19 @@ "TIMES" :> 16),
  (* state 28 *) ("COMMA" :> -20 @@ "RPAREN" :> -20),
  (* state 29 *) ("COMMA" :> -17 @@ "DIVIDE" :> -17 @@ "GT" :> -17 @@ "MINUS" :> -17 @@ "PLUS" :> -17 @@ "RPAREN" :> -17 @@ "SEMI" :> -17 @@ "TIMES" :> -17),
  (* state 30 *) ("IDENTIFIER" :> 12 @@ "LPAREN" :> 10 @@ "NUMBER" :> 11),
  (* state 31 *) ("COMMA" :> -18 @@ "DIVIDE" :> 17 @@ "GT" :> 18 @@ "MINUS" :> 15 @@ "PLUS" :> 14 @@ "RPAREN" :> -18 @@ "TIMES" :> 16),
  (* state 32 *) ("LPAREN" :> 33),
  (* state 33 *) ("COMMA" :> -16 @@ "INT" :> 37 @@ "RPAREN" :> -16),
  (* state 34 *) ("COMMA" :> 40 @@ "RPAREN" :> 39),
  (* state 35 *) ("COMMA" :> -13 @@ "RPAREN" :> -13),
  (* state 36 *) ("COMMA" :> -14 @@ "RPAREN" :> -14),
  (* state 37 *) ("IDENTIFIER" :> 38),
  (* state 38 *) ("COMMA" :> -15 @@ "RPAREN" :> -15),
  (* state 39 *) ("ARROW" :> 42),
  (* state 40 *) ("INT" :> 37),
  (* state 41 *) ("COMMA" :> -12 @@ "RPAREN" :> -12),
  (* state 42 *) ("INT" :> 43),
  (* state 43 *) ("LBRACE" :> 44),
  (* state 44 *) ("FUNCTION" :> 9 @@ "IDENTIFIER" :> 5 @@ "IF" :> 7 @@ "INT" :> 4 @@ "LPAREN" :> 10 @@ "NUMBER" :> 11 @@ "RETURN" :> 8),
  (* state 45 *) ("FUNCTION" :> 9 @@ "IDENTIFIER" :> 5 @@ "IF" :> 7 @@ "INT" :> 4 @@ "LPAREN" :> 10 @@ "NUMBER" :> 11 @@ "RBRACE" :> 47 @@ "RETURN" :> 8),
  (* state 46 *) ("$end" :> -2 @@ "FUNCTION" :> -2 @@ "IDENTIFIER" :> -2 @@ "IF" :> -2 @@ "INT" :> -2 @@ "LPAREN" :> -2 @@ "NUMBER" :> -2 @@ "RBRACE" :> -2 @@ "RETURN" :> -2),
  (* state 47 *) ("$end" :> -11 @@ "FUNCTION" :> -11 @@ "IDENTIFIER" :> -11 @@ "IF" :> -11 @@ "INT" :> -11 @@ "LPAREN" :> -11 @@ "NUMBER" :> -11 @@ "RBRACE" :> -11 @@ "RETURN" :> -11),
  (* state 48 *) ("DIVIDE" :> 17 @@ "GT" :> 18 @@ "MINUS" :> 15 @@ "PLUS" :> 14 @@ "SEMI" :> 49 @@ "TIMES" :> 16),
  (* state 49 *) ("$end" :> -10 @@ "FUNCTION" :> -10 @@ "IDENTIFIER" :> -10 @@ "IF" :> -10 @@ "INT" :> -10 @@ "LPAREN" :> -10 @@ "NUMBER" :> -10 @@ "RBRACE" :> -10 @@ "RETURN" :> -10),
  (* state 50 *) ("IDENTIFIER" :> 12 @@ "LPAREN" :> 10 @@ "NUMBER" :> 11),
  (* state 51 *) ("DIVIDE" :> 17 @@ "GT" :> 18 @@ "MINUS" :> 15 @@ "PLUS" :> 14 @@ "RPAREN" :> 52 @@ "TIMES" :> 16),
  (* state 52 *) ("LBRACE" :> 53),
  (* state 53 *) ("FUNCTION" :> 9 @@ "IDENTIFIER" :> 5 @@ "IF" :> 7 @@ "INT" :> 4 @@ "LPAREN" :> 10 @@ "NUMBER" :> 11 @@ "RETURN" :> 8),
  (* state 54 *) ("FUNCTION" :> 9 @@ "IDENTIFIER" :> 5 @@ "IF" :> 7 @@ "INT" :> 4 @@ "LPAREN" :> 10 @@ "NUMBER" :> 11 @@ "RBRACE" :> 55 @@ "RETURN" :> 8),
  (* state 55 *) ("$end" :> -9 @@ "FUNCTION" :> -9 @@ "IDENTIFIER" :> -9 @@ "IF" :> -9 @@ "INT" :> -9 @@ "LPAREN" :> -9 @@ "NUMBER" :> -9 @@ "RBRACE" :> -9 @@ "RETURN" :> -9),
  (* state 56 *) ("$end" :> -8 @@ "FUNCTION" :> -8 @@ "IDENTIFIER" :> -8 @@ "IF" :> -8 @@ "INT" :> -8 @@ "LPAREN" :> -8 @@ "NUMBER" :> -8 @@ "RBRACE" :> -8 @@ "RETURN" :> -8),
  (* state 57 *) ("IDENTIFIER" :> 12 @@ "LPAREN" :> 10 @@ "NUMBER" :> 11),
  (* state 58 *) ("DIVIDE" :> 17 @@ "GT" :> 18 @@ "MINUS" :> 15 @@ "PLUS" :> 14 @@ "SEMI" :> 59 @@ "TIMES" :> 16),
  (* state 59 *) ("$end" :> -7 @@ "FUNCTION" :> -7 @@ "IDENTIFIER" :> -7 @@ "IF" :> -7 @@ "INT" :> -7 @@ "LPAREN" :> -7 @@ "NUMBER" :> -7 @@ "RBRACE" :> -7 @@ "RETURN" :> -7),
  (* state 60 *) ("EQUALS" :> 62 @@ "SEMI" :> 63),
  (* state 61 *) ("$end" :> -4 @@ "FUNCTION" :> -4 @@ "IDENTIFIER" :> -4 @@ "IF" :> -4 @@ "INT" :> -4 @@ "LPAREN" :> -4 @@ "NUMBER" :> -4 @@ "RBRACE" :> -4 @@ "RETURN" :> -4),
  (* state 62 *) ("IDENTIFIER" :> 12 @@ "LPAREN" :> 10 @@ "NUMBER" :> 11),
  (* state 63 *) ("$end" :> -6 @@ "FUNCTION" :> -6 @@ "IDENTIFIER" :> -6 @@ "IF" :> -6 @@ "INT" :> -6 @@ "LPAREN" :> -6 @@ "NUMBER" :> -6 @@ "RBRACE" :> -6 @@ "RETURN" :> -6),
  (* state 64 *) ("DIVIDE" :> 17 @@ "GT" :> 18 @@ "MINUS" :> 15 @@ "PLUS" :> 14 @@ "SEMI" :> 65 @@ "TIMES" :> 16),
  (* state 65 *) ("$end" :> -5 @@ "FUNCTION" :> -5 @@ "IDENTIFIER" :> -5 @@ "IF" :> -5 @@ "INT" :> -5 @@ "LPAREN" :> -5 @@ "NUMBER" :> -5 @@ "RBRACE" :> -5 @@ "RETURN" :> -5)
  >>

LRGoto ==
  <<
  (* state  0 *) ("expression" :> 6 @@ "program" :> 1 @@ "statement" :> 3 @@ "statement_list" :> 2),
  (* state  1 *) <<>>,
  (* state  2 *) ("expression" :> 6 @@ "statement" :> 46),
  (* state  3 *) <<>>,
  (* state  4 *) <<>>,
  (* state  5 *) <<>>,
  (* state  6 *) <<>>,
  (* state  7 *) <<>>,
  (* state  8 *) ("expression" :> 48),
  (* state  9 *) <<>>,
  (* state 10 *) ("expression" :> 13),
  (* state 11 *) <<>>,
  (* state 12 *) <<>>,
  (* state 13 *) <<>>,
  (* state 14 *) ("expression" :> 24),
  (* state 15 *) ("expression" :> 23),
  (* state 16 *) ("expression" :> 22),
  (* state 17 *) ("expression" :> 21),
  (* state 18 *) ("expression" :> 20),
  (* state 19 *) <<>>,
  (* state 20 *) <<>>,
  (* state 21 *) <<>>,
  (* state 22 *) <<>>,
  (* state 23 *) <<>>,
  (* state 24 *) <<>>,
  (* state 25 *) ("argument_list" :> 26 @@ "empty" :> 28 @@ "expression" :> 27),
  (* state 26 *) <<>>,
  (* state 27 *) <<>>,
  (* state 28 *) <<>>,
  (* state 29 *) <<>>,
  (* state 30 *) ("expression" :> 31),
  (* state 31 *) <<>>,
  (* state 32 *) <<>>,
  (* state 33 *) ("empty" :> 36 @@ "parameter" :> 35 @@ "parameter_list" :> 34),
  (* state 34 *) <<>>,
  (* state 35 *) <<>>,
  (* state 36 *) <<>>,
  (* state 37 *) <<>>,
  (* state 38 *) <<>>,
  (* state 39 *) <<>>,
  (* state 40 *) ("parameter" :> 41),
  (* state 41 *) <<>>,
  (* state 42 *) <<>>,
  (* state 43 *) <<>>,
  (* state 44 *) ("expression" :> 6 @@ "statement" :> 3 @@ "statement_list" :> 45),
  (* state 45 *) ("expression" :> 6 @@ "statement" :> 46),
  (* state 46 *) <<>>,
  (* state 47 *) <<>>,
  (* state 48 *) <<>>,
  (* state 49 *) <<>>,
  (* state 50 *) ("expression" :> 51),
  (* state 51 *) <<>>,
  (* state 52 *) <<>>,
  (* state 53 *) ("expression" :> 6 @@ "statement" :> 3 @@ "statement_list" :> 54),
  (* state 54 *) ("expression" :> 6 @@ "statement" :> 46),
  (* state 55 *) <<>>,
  (* state 56 *) <<>>,
  (* state 57 *) ("expression" :> 58),
  (* state 58 *) <<>>,
  (* state 59 *) <<>>,
  (* state 60 *) ("declaration_rest" :> 61),
  (* state 61 *) <<>>,
  (* state 62 *) ("expression" :> 64),
  (* state 63 *) <<>>,
  (* state 64 *) <<>>,
  (* state 65 *) <<>>
  >>

Productions ==
  <<
  (*  1: program -> statement_list *) [name |-> "program", len |-> 1],
  (*  2: statement_list -> statement_list statement *) [name |-> "statement_list", len |-> 2],
  (*  3: statement_list -> statement *) [name |-> "statement_list", len |-> 1],
  (*  4: statement -> INT IDENTIFIER declaration_rest *) [name |-> "statement", len |-> 3],
  (*  5: declaration_rest -> EQUALS expression SEMI *) [name |-> "declaration_rest", len |-> 3],
  (*  6: declaration_rest -> SEMI *) [name |-> "declaration_rest", len |-> 1],
  (*  7: statement -> IDENTIFIER EQUALS expression SEMI *) [name |-> "statement", len |-> 4],
  (*  8: statement -> expression SEMI *) [name |-> "statement", len |-> 2],
  (*  9: statement -> IF LPAREN expression RPAREN LBRACE statement_list RBRACE *) [name |-> "statement", len |-> 7],
  (* 10: statement -> RETURN expression SEMI *) [name |-> "statement", len |-> 3],
  (* 11: statement -> FUNCTION IDENTIFIER LPAREN parameter_list RPAREN ARROW INT LBRACE statement_list RBRACE *) [name |-> "statement", len |-> 10],
  (* 12: parameter_list -> parameter_list COMMA parameter *) [name |-> "parameter_list", len |-> 3],
  (* 13: parameter_list -> parameter *) [name |-> "parameter_list", len |-> 1],
  (* 14: parameter_list -> empty *) [name |-> "parameter_list", len |-> 1],
  (* 15: parameter -> INT IDENTIFIER *) [name |-> "parameter", len |-> 2],
  (* 16: empty -> <empty> *) [name |-> "empty", len |-> 0],
  (* 17: expression -> IDENTIFIER LPAREN argument_list RPAREN *) [name |-> "expression", len |-> 4],
  (* 18: argument_list -> argument_list COMMA expression *) [name |-> "argument_list", len |-> 3],
  (* 19: argument_list -> expression *) [name |-> "argument_list", len |-> 1],
  (* 20: argument_list -> empty *) [name |-> "argument_list", len |-> 1],
  (* 21: expression -> expression PLUS expression *) [name |-> "expression", len |-> 3],
  (* 22: expression -> expression MINUS expression *) [name |-> "expression", len |-> 3],
  (* 23: expression -> expression TIMES expression *) [name |-> "expression", len |-> 3],
  (* 24: expression -> expression DIVIDE expression *) [name |-> "expression", len |-> 3],
  (* 25: expression -> expression GT expression *) [name |-> "expression", len |-> 3],
  (* 26: expression -> LPAREN expression RPAREN *) [name |-> "expression", len |-> 3],
  (* 27: expression -> NUMBER *) [name |-> "expression", len |-> 1],
  (* 28: expression -> IDENTIFIER *) [name |-> "expression", len |-> 1]
  >>

\* The body of the p_ function of each rule: p[0] from p[1..len].  A list
\* (statement_list, parameter_list, argument_list) is a sequence, the value
\* of `empty' is NoneNode.
p_reduce(rule, p) ==
  CASE rule = 1  -> ASTNode("program", p[1], NoLeaf)
    [] rule = 2  -> Append(p[1], p[2])
    [] rule = 3  -> << p[1] >>
    [] rule = 4  -> ASTNode("declaration", << p[3] >>, p[2])
    [] rule = 5  -> ASTNode("init", << p[2] >>, NoLeaf)
    [] rule = 6  -> ASTNode("noinit", <<>>, NoLeaf)
    [] rule = 7  -> ASTNode("assignment",
                            << ASTNode("identifier", <<>>, p[1]), p[3] >>, NoLeaf)
    [] rule = 8  -> ASTNode("expression_statement", << p[1] >>, NoLeaf)
    [] rule = 9  -> ASTNode("if", << p[3], ASTNode("block", p[6], NoLeaf) >>, NoLeaf)
    [] rule = 10 -> ASTNode("return", << p[2] >>, NoLeaf)
    [] rule = 11 -> ASTNode("function_decl",
                            << p[4], ASTNode("return_type", <<>>, "int"),
                               ASTNode("block", p[9], NoLeaf) >>, p[2])
    [] rule = 12 -> Append(p[1], p[3])
    [] rule \in { 13, 14 } -> IF p[1].nodetype = "None" THEN <<>> ELSE << p[1] >>
    [] rule = 15 -> ASTNode("param", <<>>, p[2])
    [] rule = 16 -> NoneNode
    [] rule = 17 -> ASTNode("funccall", << p[3] >>, p[1])
    [] rule = 18 -> Append(p[1], p[3])
    [] rule \in { 19, 20 } -> IF p[1].nodetype = "None" THEN <<>> ELSE << p[1] >>
    [] rule \in 21..25 -> ASTNode("binary_op", << p[1], p[3] >>, p[2])
    [] rule = 26 -> p[2]
    [] rule = 27 -> ASTNode("number", <<>>, p[1])
    [] rule = 28 -> ASTNode("identifier", <<>>, p[1])

\* yacc.error_count: after an error, p_error stays silent until this many
\* tokens have been shifted.
error_count == 3

EndToken == [ type |-> "$end", value |-> "", lineno |-> 0 ]

\* p_error(p): one printed line, naming the token and its line, or EOF.
p_error(tok) ==
  IF tok.type # "$end"
    THEN [ kind |-> "SyntaxError",
           what |-> IF tok.type = "NUMBER" THEN ToString(tok.value) ELSE tok.value,
           line |-> tok.lineno, at |-> "p_error" ]
    ELSE [ kind |-> "SyntaxErrorEOF", what |-> "", line |-> 0, at |-> "p_error" ]

\* ------------------------------------------------------------------------
\* semantic.py
\* ------------------------------------------------------------------------
\* A SymbolTable and its parents are a chain of frames, outermost first;
\* a frame is SymbolTable.symbols: name -> info.  The analyzer is run on
\* [chain, diags]: the tables (an assignment writes through to the frame
\* that holds the symbol) and the lines printed so far.  `at' records the
\* node kind whose branch printed the line.
Diag(kind, what, at) == [ kind |-> kind, what |-> what, line |-> 0, at |-> at ]

EmptyFrame == << >>

\* A faulty SymbolTable.add that also rejects a name held by an enclosing
\* table (no shadowing).
SymbolTable_add_NoShadowing(st, name, info, at) ==
  IF \E k \in DOMAIN st.chain : name \in DOMAIN st.chain[k]
    THEN [ st EXCEPT !.diags = Append(@, Diag("AlreadyDeclared", name, at)) ]
    ELSE [ st EXCEPT !.chain[Len(st.chain)] = Last(st.chain) @@ (name :> info) ]

\* SymbolTable.add(name, info)
SymbolTable_add(st, name, info, at) ==
  LET frame == Last(st.chain) IN
  IF name \in DOMAIN frame
    THEN [ st EXCEPT !.diags = Append(@, Diag("AlreadyDeclared", name, at)) ]
    ELSE [ st EXCEPT !.chain[Len(st.chain)] = frame @@ (name :> info) ]

\* SymbolTable.lookup(name): the index of the innermost frame holding name,
\* 0 for None.
RECURSIVE LookupFrom(_, _, _)
LookupFrom(chain, k, name) ==
  IF k = 0 THEN 0
  ELSE IF name \in DOMAIN chain[k] THEN k
  ELSE LookupFrom(chain, k - 1, name)

\* A faulty SymbolTable.lookup that never asks the parent.
SymbolTable_lookup_NoParent(chain, name) ==
  IF name \in DOMAIN Last(chain) THEN Len(chain) ELSE 0

SymbolTable_lookup(chain, name) == LookupFrom(chain, Len(chain), name)

\* SymbolTable(parent) on entry to a region, dropped again on leaving it.
PushFrame(st) == [ st EXCEPT !.chain = Append(@, EmptyFrame) ]

PopFrame(st) == [ st EXCEPT !.chain = Front(@) ]

\* for param in param_list: new_table.add(param.leaf, {"initialized": True})
RECURSIVE AddParams(_, _)
AddParams(ps, st) ==
  IF ps = <<>> THEN st
  ELSE AddParams(Tail(ps),
         SymbolTable_add(st, Head(ps).leaf, [ initialized |-> TRUE ], "param"))

RECURSIVE semantic_check(_, _)
RECURSIVE semantic_each(_, _)

\* for x in xs: semantic_check(x, sym_table)
semantic_each(xs, st) ==
  IF xs = <<>> THEN st
  ELSE semantic_each(Tail(xs), semantic_check(Head(xs), st))

semantic_check(ast, st) ==
  CASE ast.nodetype = "None" -> st
    [] ast.nodetype = "program" -> semantic_each(ast.children, st)
    [] ast.nodetype = "block" ->
         PopFrame(semantic_each(ast.children, PushFrame(st)))
    [] ast.nodetype = "declaration" ->
         LET init_node == ast.children[1] IN
         IF init_node.nodetype = "init"
           THEN semantic_check(init_node.children[1],
                  SymbolTable_add(st, ast.leaf, [ initialized |-> TRUE ],
                                  "declaration"))
         ELSE IF init_node.nodetype = "noinit"
           THEN [ st EXCEPT !.diags =
                    Append(@, Diag("NotInitialized", ast.leaf, "declaration")) ]
         ELSE st
    [] ast.nodetype = "assignment" ->
         LET var_name == ast.children[1].leaf
             k        == SymbolTable_lookup(st.chain, var_name)
             st2      == IF k = 0
                           THEN [ st EXCEPT !.diags =
                                    Append(@, Diag("NotDeclared", var_name,
                                                   "assignment")) ]
                           ELSE [ st EXCEPT !.chain[k][var_name].initialized = TRUE ]
         IN  semantic_check(ast.children[2], st2)
    [] ast.nodetype = "identifier" ->
         LET k == SymbolTable_lookup(st.chain, ast.leaf) IN
         IF k = 0 \/ ~ st.chain[k][ast.leaf].initialized
           THEN [ st EXCEPT !.diags =
                    Append(@, Diag("NotInitialized", ast.leaf, "identifier")) ]
           ELSE st
    [] ast.nodetype = "binary_op" ->
         semantic_check(ast.children[2], semantic_check(ast.children[1], st))
    [] ast.nodetype = "expression_statement" ->
         semantic_check(ast.children[1], st)
    [] ast.nodetype = "if" ->
         PopFrame(semantic_check(ast.children[2],
                                 PushFrame(semantic_check(ast.children[1], st))))
    [] ast.nodetype = "return" -> semantic_check(ast.children[1], st)
    [] ast.nodetype = "function_decl" ->
         LET st1 == PushFrame(SymbolTable_add(st, ast.leaf,
                                [ initialized |-> TRUE ], "function_decl"))
         IN  PopFrame(semantic_check(ast.children[3], AddParams(ast.children[1], st1)))
    [] ast.nodetype = "init" -> semantic_check(ast.children[1], st)
    [] ast.nodetype = "funccall" -> semantic_each(ast.children[1], st)
    [] OTHER -> semantic_each(ast.children, st)

\* semantic_check(ast) as main calls it: a fresh root table; the result is
\* the list of lines printed.
SemanticDiags(ast) ==
  semantic_check(ast, [ chain |-> << EmptyFrame >>, diags |-> <<>> ]).diags

\* ------------------------------------------------------------------------
\* ir_generator.py (on llvmlite.ir)
\* ------------------------------------------------------------------------
\* An operand: an integer constant or a named value (%name, @name, label).
Const(v) == [ const |-> TRUE, v |-> v, name |-> "" ]

Value(name) == [ const |-> FALSE, v |-> 0, name |-> name ]

\* One instruction, which is also one line of the textual IR.
Instr(kind, dst, name, ops) ==
  [ kind |-> kind, dst |-> dst, name |-> name, ops |-> ops ]

\* llvmlite NameScope.register(name, deduplicate=True) in the scope of
\* function f: while the name is used, the counter of its base name is
\* bumped and "<base>.<n>" is tried.
RECURSIVE deduplicate(_, _, _)
deduplicate(scope, basename, name) ==
  IF name \notin scope.useset THEN [ scope |-> scope, name |-> name ]
  ELSE LET ident == (IF basename \in DOMAIN scope.basenamemap
                       THEN scope.basenamemap[basename] ELSE 0) + 1
           bm    == [ b \in DOMAIN scope.basenamemap \cup { basename } |->
                        IF b = basename THEN ident ELSE scope.basenamemap[b] ]
       IN  deduplicate([ scope EXCEPT !.basenamemap = bm ], basename,
                       basename \o "." \o ToString(ident))

register(scope, name) ==
  LET d == deduplicate(scope, name, name)
  IN  [ scope |-> [ d.scope EXCEPT !.useset = @ \cup { d.name } ],
        name  |-> d.name ]

EmptyScope == [ useset |-> { "" }, basenamemap |-> << >> ]

\* The generator: the module's functions in creation order (each with its
\* name scope and its basic blocks in append order), the builder's
\* function and block, self.symbol_table, self.functions, and the
\* exception raised, if any ("" for none).
NewGenerator ==
  [ funcs        |-> <<>>,
    cur          |-> [ f |-> 0, b |-> 0 ],
    symbol_table |-> << >>,
    functions    |-> {},
    err          |-> "" ]

CurBlock(g) == g.funcs[g.cur.f].blocks[g.cur.b]

\* block.is_terminated
is_terminated(g) == CurBlock(g).terminated

\* A name registered in the scope of the builder's function.
NameIn(g, name) == register(g.funcs[g.cur.f].scope, name)

\* IRBuilder._insert: the instruction goes to the end of the builder's
\* block, whether or not the block already has a terminator.
Insert(g, ins, scope) ==
  [ g EXCEPT !.funcs[g.cur.f].blocks[g.cur.b].instrs = Append(@, ins),
             !.funcs[g.cur.f].scope = scope ]

\* A value-producing instruction with a requested name: returns the
\* generator and the operand naming the result.
Build(g, kind, reqname, name, ops) ==
  LET r == NameIn(g, reqname)
  IN  [ g   |-> Insert(g, Instr(kind, r.name, name, ops), r.scope),
        val |-> Value(r.name) ]

\* builder.store
Store(g, val, slot) ==
  Insert(g, Instr("store", "", "", << val, Value(slot) >>),
         g.funcs[g.cur.f].scope)

\* IRBuilder._set_terminator: asserts that the block has no terminator yet.
Terminate(g, ins) ==
  IF is_terminated(g) THEN [ g EXCEPT !.err = "AssertionError" ]
  ELSE [ Insert(g, ins, g.funcs[g.cur.f].scope)
           EXCEPT !.funcs[g.cur.f].blocks[g.cur.b].terminated = TRUE ]

\* func.append_basic_block(name): a new block at the end of the function,
\* its name deduplicated in the function's scope; returns its index.
append_basic_block(g, f, name) ==
  LET r == register(g.funcs[f].scope, name)
  IN  [ g EXCEPT !.funcs[f].blocks =
                   Append(@, [ name |-> r.name, instrs |-> <<>>,
                               terminated |-> FALSE ]),
                 !.funcs[f].scope = r.scope ]

\* ir.Function(module, func_type, name): the name must be new in the module
\* (llvmlite raises DuplicatedNameError otherwise); the arguments are then
\* given the parameter names, deduplicated in the function's scope.
RECURSIVE NameArgs(_, _, _)
NameArgs(scope, params, args) ==
  IF params = <<>> THEN [ scope |-> scope, args |-> args ]
  ELSE LET r == register(scope, Head(params))
       IN  NameArgs(r.scope, Tail(params), Append(args, r.name))

NewFunction(g, name, params) ==
  IF \E i \in DOMAIN g.funcs : g.funcs[i].name = name
    THEN [ g EXCEPT !.err = "DuplicatedNameError" ]
  ELSE LET a == NameArgs(EmptyScope, params, <<>>)
       IN  [ g EXCEPT !.funcs = Append(@, [ name   |-> name,
                                             args   |-> a.args,
                                             blocks |-> <<>>,
                                             scope  |-> a.scope ]) ]

BinOpKind == ( "+" :> "add" @@ "-" :> "sub" @@ "*" :> "mul" @@ "/" :> "sdiv" )

BinOpName ==
  ( "+" :> "addtmp" @@ "-" :> "subtmp" @@ "*" :> "multmp" @@ "/" :> "divtmp" )

RECURSIVE _generate_expression(_, _)
RECURSIVE _generate_args(_, _, _)
RECURSIVE _generate_statement(_, _)
RECURSIVE _generate_statements(_, _)

\* for arg_node in node.children[0]: args.append(self._generate_expression(arg_node))
_generate_args(nodes, g, args) ==
  IF nodes = <<>> \/ g.err # "" THEN [ g |-> g, val |-> args ]
  ELSE LET r == _generate_expression(Head(nodes), g)
       IN  _generate_args(Tail(nodes), r.g, Append(args, r.val))

\* _generate_funccall
_generate_funccall(node, g) ==
  IF node.leaf \notin g.functions
    THEN [ g |-> [ g EXCEPT !.err = "ValueError" ], val |-> Const(0) ]
  ELSE LET a == _generate_args(node.children[1], g, <<>>) IN
       IF a.g.err # "" THEN [ g |-> a.g, val |-> Const(0) ]
       ELSE Build(a.g, "call", node.leaf \o "_call", node.leaf, a.val)

\* _generate_expression: the generator after the expression's instructions
\* and the operand holding its value.
_generate_expression(node, g) ==
  CASE g.err # "" -> [ g |-> g, val |-> Const(0) ]
    [] g.err = "" /\ node.nodetype = "number" ->
         [ g |-> g, val |-> Const(node.leaf) ]
    [] g.err = "" /\ node.nodetype = "identifier" ->
         IF node.leaf \in DOMAIN g.symbol_table
           THEN Build(g, "load", node.leaf \o "_val", "",
                      << Value(g.symbol_table[node.leaf]) >>)
           ELSE [ g |-> [ g EXCEPT !.err = "ValueError" ], val |-> Const(0) ]
    [] g.err = "" /\ node.nodetype = "binary_op" ->
         LET l == _generate_expression(node.children[1], g)
             r == _generate_expression(node.children[2], l.g)
         IN  IF r.g.err # "" THEN [ g |-> r.g, val |-> Const(0) ]
             ELSE IF node.leaf \in DOMAIN BinOpKind
               THEN Build(r.g, BinOpKind[node.leaf], BinOpName[node.leaf], "",
                          << l.val, r.val >>)
             ELSE IF node.leaf = ">"
               THEN LET cmp == Build(r.g, "icmp", "cmptmp", "sgt",
                                     << l.val, r.val >>)
                    IN  Build(cmp.g, "zext", "booltmp", "", << cmp.val >>)
             ELSE [ g |-> [ r.g EXCEPT !.err = "ValueError" ], val |-> Const(0) ]
    [] g.err = "" /\ node.nodetype = "funccall" -> _generate_funccall(node, g)
    [] OTHER -> [ g |-> [ g EXCEPT !.err = "ValueError" ], val |-> Const(0) ]

\* self.builder.store(value, addr) of the value of a lowered expression
StoreValue(e, slot) == IF e.g.err # "" THEN e.g ELSE Store(e.g, e.val, slot)

\* _generate_declaration after the alloca a: symbol_table[var_name] =
\* var_addr, then the initial value, if any, is lowered and stored.
Declare(node, a) ==
  LET init_node == node.children[1]
      g1 == [ a.g EXCEPT !.symbol_table =
                [ v \in DOMAIN a.g.symbol_table \cup { node.leaf } |->
                    IF v = node.leaf THEN a.val.name ELSE a.g.symbol_table[v] ] ]
  IN  IF init_node.nodetype = "init"
        THEN StoreValue(_generate_expression(init_node.children[1], g1), a.val.name)
        ELSE g1

\* _generate_declaration
_generate_declaration(node, g) ==
  Declare(node, Build(g, "alloca", node.leaf, "", <<>>))

\* _generate_assignment
_generate_assignment(node, g) ==
  LET var_name == node.children[1].leaf IN
  IF var_name \notin DOMAIN g.symbol_table
    THEN [ g EXCEPT !.err = "ValueError" ]
    ELSE StoreValue(_generate_expression(node.children[2], g),
                    g.symbol_table[var_name])

\* self.builder.ret(ret_val) of the value of a lowered expression
ReturnValue(e) ==
  IF e.g.err # "" THEN e.g ELSE Terminate(e.g, Instr("ret", "", "", << e.val >>))

\* _generate_return
_generate_return(node, g) ==
  IF node.children # <<>>
    THEN ReturnValue(_generate_expression(node.children[1], g))
    ELSE Terminate(g, Instr("ret", "", "", << Const(0) >>))

\* if not self.builder.block.is_terminated:
\*     self.builder.ret(ir.Constant(self.int_type, 0))
RetIfOpen(g) ==
  IF g.err # "" \/ is_terminated(g) THEN g
  ELSE Terminate(g, Instr("ret", "", "", << Const(0) >>))

\* if not self.builder.block.is_terminated: self.builder.branch(target)
BranchIfOpen(g, target) ==
  IF g.err # "" \/ is_terminated(g) THEN g
  ELSE Terminate(g, Instr("br", "", "", << Value(target) >>))

\* builder.position_at_end(block)
position_at_end(g, b) == IF g.err # "" THEN g ELSE [ g EXCEPT !.cur.b = b ]

\* The name of block b of the builder's function.
BlockName(g, b) == g.funcs[g.cur.f].blocks[b].name

\* _generate_if, the condition: cond_bool = icmp_signed('!=', cond_value, 0)
IfCond(c) ==
  IF c.g.err # "" THEN c
  ELSE Build(c.g, "icmp", "ifcond", "ne", << c.val, Const(0) >>)

\* _generate_if, the blocks: then, else and ifcont are appended to the
\* function (as its blocks n + 1, n + 2, n + 3).
IfBlocks(g) ==
  IF g.err # "" THEN g
  ELSE append_basic_block(
         append_basic_block(
           append_basic_block(g, g.cur.f, "then"), g.cur.f, "else"),
         g.cur.f, "ifcont")

\* _generate_if: self.builder.cbranch(cond_bool, then_block, else_block)
CondBranch(g, cond, n) ==
  IF g.err # "" THEN g
  ELSE Terminate(g, Instr("cbr", "", "",
         << cond, Value(BlockName(g, n + 1)), Value(BlockName(g, n + 2)) >>))

\* _generate_if, one arm: the builder is put at the end of the arm's block
\* and the statements of the arm, if any, are lowered.
Arm(stmts, g, b) == _generate_statements(stmts, position_at_end(g, b))

\* _generate_if, after an arm: branch to the merge block unless the
\* builder's block is terminated.
LeaveArm(g, merge_block) ==
  IF g.err # "" THEN g ELSE BranchIfOpen(g, BlockName(g, merge_block))

\* _generate_if from the conditional branch on
IfArms(node, g, n) ==
  position_at_end(
    LeaveArm(
      Arm(IF Len(node.children) > 2 THEN node.children[3].children ELSE <<>>,
          LeaveArm(Arm(node.children[2].children, g, n + 1), n + 3),
          n + 2),
      n + 3),
    n + 3)

IfBranch(node, cb, n) == IfArms(node, CondBranch(IfBlocks(cb.g), cb.val, n), n)

\* _generate_if
_generate_if(node, g) ==
  IfBranch(node, IfCond(_generate_expression(node.children[1], g)),
           Len(g.funcs[g.cur.f].blocks))

\* The parameter loop of _generate_function_decl: alloca, store of the
\* argument, symbol_table[param_name] = param_addr.
AllocateParam(a, arg, param) ==
  [ Store(a.g, Value(arg), a.val.name)
      EXCEPT !.symbol_table =
        [ v \in DOMAIN a.g.symbol_table \cup { param } |->
            IF v = param THEN a.val.name ELSE a.g.symbol_table[v] ] ]

RECURSIVE AllocateParams(_, _, _)
AllocateParams(g, params, i) ==
  IF g.err # "" \/ i > Len(params) THEN g
  ELSE AllocateParams(
         AllocateParam(Build(g, "alloca", params[i], "", <<>>),
                       g.funcs[g.cur.f].args[i], params[i]),
         params, i + 1)

\* [param_node.leaf for param_node in node.children[0]]
ParamNames(node) == [ i \in DOMAIN node.children[1] |-> node.children[1][i].leaf ]

\* _generate_function_decl, entering: self.functions[func_name] = func, the
\* entry block, a new builder and an empty symbol table.
FunctionEnter(node, g) ==
  IF g.err # "" THEN g
  ELSE [ append_basic_block(g, Len(g.funcs), "entry")
           EXCEPT !.functions = @ \cup { node.leaf },
                  !.cur = [ f |-> Len(g.funcs), b |-> 1 ],
                  !.symbol_table = << >> ]

\* _generate_function_decl, leaving: the old symbol table and builder are
\* restored (not when an exception is on its way out).
FunctionLeave(old, g) ==
  IF g.err # "" THEN g
  ELSE [ g EXCEPT !.symbol_table = old.symbol_table, !.cur = old.cur ]

\* _generate_function_decl
_generate_function_decl(node, g) ==
  FunctionLeave(g,
    RetIfOpen(
      _generate_statements(node.children[3].children,
        AllocateParams(
          FunctionEnter(node, NewFunction(g, node.leaf, ParamNames(node))),
          ParamNames(node), 1))))

\* _generate_statement
_generate_statement(node, g) ==
  CASE g.err # "" -> g
    [] g.err = "" /\ node.nodetype = "declaration" -> _generate_declaration(node, g)
    [] g.err = "" /\ node.nodetype = "assignment" -> _generate_assignment(node, g)
    [] g.err = "" /\ node.nodetype = "expression_statement" ->
         _generate_expression(node.children[1], g).g
    [] g.err = "" /\ node.nodetype = "if" -> _generate_if(node, g)
    [] g.err = "" /\ node.nodetype = "return" -> _generate_return(node, g)
    [] g.err = "" /\ node.nodetype = "function_decl" ->
         _generate_function_decl(node, g)
    [] OTHER -> [ g EXCEPT !.err = "ValueError" ]

\* for stmt in ...: self._generate_statement(stmt)
_generate_statements(stmts, g) ==
  IF stmts = <<>> \/ g.err # "" THEN g
  ELSE _generate_statements(Tail(stmts), _generate_statement(Head(stmts), g))

\* generate_ir, entering: the main function, its entry block, the builder.
MainEntry ==
  [ append_basic_block(NewFunction(NewGenerator, "main", <<>>), 1, "entry")
      EXCEPT !.cur = [ f |-> 1, b |-> 1 ] ]

\* generate_ir(ast): the main function with its entry block, every
\* statement of the program, and a final `ret i32 0' unless the builder's
\* block is terminated.  The result is the generator; err # "" stands for
\* the exception that left generate_ir.
generate_ir(ast) ==
  IF ast.nodetype # "program" THEN [ NewGenerator EXCEPT !.err = "ValueError" ]
  ELSE RetIfOpen(_generate_statements(ast.children, MainEntry))

\* str(module): the lines of the textual IR.  llvmlite writes every name in
\* double quotes except block labels, and the opening brace of a function
\* on the line after its `define'.
ModuleHeader ==
  << Instr("comment", "", "ModuleID", <<>>),
     Instr("target", "", "triple", <<>>),
     Instr("target", "", "datalayout", <<>>),
     Instr("blank", "", "", <<>>) >>

BlockLines(blk) == << Instr("label", "", blk.name, <<>>) >> \o blk.instrs

FunctionLines(fn) ==
  << Instr("define", "", fn.name, [ i \in DOMAIN fn.args |-> Value(fn.args[i]) ]),
     Instr("lbrace", "", "", <<>>) >>
  \o Flatten([ b \in DOMAIN fn.blocks |-> BlockLines(fn.blocks[b]) ])
  \o << Instr("rbrace", "", "", <<>>), Instr("blank", "", "", <<>>) >>

ModuleText(g) ==
  [ quoted |-> TRUE,
    lines  |-> ModuleHeader
               \o Flatten([ f \in DOMAIN g.funcs |-> FunctionLines(g.funcs[f]) ]) ]

\* ------------------------------------------------------------------------
\* assembly_generator.py
\* ------------------------------------------------------------------------
\* The backend reads the IR as text and recognises each line with a regular
\* expression.  A text is its lines (one Instr each) and whether its names
\* are written in double quotes (as llvmlite writes them) or bare.  Most
\* patterns allow both spellings ( %\"?([\w\.]+)\"? ); the patterns %\w+ and
\* %(\w+) match a bare name of word characters only.
HasDot(name) == \E i \in 1..Len(name) : Ch(name, i) = "."

\* %\w+ followed directly by the next literal of the pattern
BareWord(text, op) == ~ text.quoted /\ ~ op.const /\ ~ HasDot(op.name)

IsAlloca(line) == line.kind = "alloca"

\* parse_allocas: every alloca line of the whole text, in order, takes the
\* next offset -8, -16, ...; a name seen again is overwritten.
parse_allocas(text) ==
  LET lines == text.lines
      nth(i) == Cardinality({ j \in 1..i : IsAlloca(lines[j]) })
      vars   == { lines[i].dst : i \in { j \in DOMAIN lines : IsAlloca(lines[j]) } }
  IN  [ v \in vars |->
          LET last == CHOOSE i \in DOMAIN lines :
                        /\ IsAlloca(lines[i]) /\ lines[i].dst = v
                        /\ \A j \in DOMAIN lines :
                             IsAlloca(lines[j]) /\ lines[j].dst = v => j <= i
          IN  -8 * nth(last) ]

\* One line of assembly: an opcode (or "label", "comment", "section",
\* "global") and up to two operands.
Asm(op, a, b) == [ op |-> op, a |-> a, b |-> b ]

\* f"{ofs:+}"
Signed(n) == IF n >= 0 THEN "+" \o ToString(n) ELSE ToString(n)

Slot(ofs) == "[rbp" \o Signed(ofs) \o "]"

\* min(var_offsets.values(), default=0)
MinOffset(var_offsets) ==
  IF DOMAIN var_offsets = {} THEN 0
  ELSE CHOOSE m \in { var_offsets[v] : v \in DOMAIN var_offsets } :
         \A v \in DOMAIN var_offsets : m <= var_offsets[v]

KeyError == << Asm("KeyError", "", "") >>

\* var_offsets[var], used by the store and load cases, raises KeyError for
\* a name that has no slot.
HasSlot(var_offsets, var) == var \in DOMAIN var_offsets

\* The argument loop of the call case: the first argument goes to edi, the
\* second to esi, each from the offset var_offsets.get(reg, 0), where reg is
\* the operand as written, with its leading '%'.
ArgText(text, op) ==
  IF op.const THEN ToString(op.v)
  ELSE IF text.quoted THEN "%\"" \o op.name \o "\"" ELSE "%" \o op.name

CallArgs(text, var_offsets, args) ==
  LET load(i, reg) ==
        LET key == ArgText(text, args[i])
            ofs == IF key \in DOMAIN var_offsets THEN var_offsets[key] ELSE 0
        IN  << Asm("mov", reg, "DWORD " \o Slot(ofs)) >>
  IN  (IF Len(args) >= 1 THEN load(1, "edi") ELSE <<>>)
      \o (IF Len(args) >= 2 THEN load(2, "esi") ELSE <<>>)

Unhandled(line) == << Asm("comment", "unhandled IR", line.kind) >>

\* The body of the loop of ir_to_asm for one line: the cases in the order
\* the code tries them.
LineToAsm(text, var_offsets, line) ==
  LET k == line.kind IN
  CASE k \in { "target", "comment" } -> <<>>
    [] k = "define_brace" ->
         << Asm("label", line.name, ""),
            Asm("push", "rbp", ""),
            Asm("mov", "rbp", "rsp"),
            Asm("sub", "rsp", ToString(-MinOffset(var_offsets))) >>
    [] k = "rbrace" -> << Asm("leave", "", ""), Asm("ret", "", "") >>
    [] k = "alloca" -> <<>>
    [] k = "store" /\ line.ops[1].const ->
         IF HasSlot(var_offsets, line.ops[2].name)
           THEN << Asm("mov", "DWORD " \o Slot(var_offsets[line.ops[2].name]),
                       ToString(line.ops[1].v)) >>
           ELSE KeyError
    [] k = "store" /\ ~ line.ops[1].const ->
         IF BareWord(text, line.ops[1])
           THEN IF HasSlot(var_offsets, line.ops[2].name)
                  THEN << Asm("mov", Slot(var_offsets[line.ops[2].name]), "eax") >>
                  ELSE KeyError
           ELSE Unhandled(line)
    [] k = "load" ->
         IF BareWord(text, Value(line.dst))
           THEN IF HasSlot(var_offsets, line.ops[1].name)
                  THEN << Asm("mov", "eax",
                              "DWORD " \o Slot(var_offsets[line.ops[1].name])) >>
                  ELSE KeyError
           ELSE Unhandled(line)
    [] k = "call" ->
         IF BareWord(text, Value(line.dst))
           THEN CallArgs(text, var_offsets, line.ops)
                \o << Asm("call", line.name, ""), Asm("mov", "eax", "eax") >>
           ELSE Unhandled(line)
    [] k = "add" -> << Asm("pop", "rbx", ""), Asm("add", "eax", "rbx") >>
    [] k = "sub" -> << Asm("pop", "rbx", ""), Asm("sub", "rbx", "eax"),
                       Asm("mov", "eax", "rbx") >>
    [] k = "mul" -> << Asm("imul", "eax", "ebx") >>
    [] k = "sdiv" -> << Asm("cqo", "", ""), Asm("idiv", "ebx", "") >>
    [] k = "icmp" /\ line.name = "sgt" ->
         IF /\ BareWord(text, Value(line.dst))
            /\ BareWord(text, line.ops[1])
            /\ line.ops[2].const
           THEN << Asm("cmp", "eax", ToString(line.ops[2].v)),
                   Asm("setg", "al", ""), Asm("movzx", "eax", "al") >>
           ELSE Unhandled(line)
    [] k = "icmp" /\ line.name = "ne" ->
         << Asm("cmp", "eax", "0"), Asm("setne", "al", ""),
            Asm("movzx", "eax", "al") >>
    [] k = "cbr" ->
         << Asm("cmp", "al", "0"), Asm("je", "else", ""), Asm("jmp", "then", "") >>
    [] k = "br" -> << Asm("jmp", line.ops[1].name, "") >>
    [] k = "label" -> << Asm("label", line.name, "") >>
    [] k = "ret" /\ line.ops[1].const ->
         << Asm("mov", "eax", ToString(line.ops[1].v)),
            Asm("leave", "", ""), Asm("ret", "", "") >>
    [] k = "ret" /\ ~ line.ops[1].const ->
         << Asm("comment", "return in eax", ""),
            Asm("leave", "", ""), Asm("ret", "", "") >>
    [] k = "blank" -> <<>>
    [] OTHER -> Unhandled(line)

\* ir_to_asm(ir_lines, var_offsets)
ir_to_asm(text, var_offsets) ==
  << Asm("section", ".text", ""), Asm("global", "main", "") >>
  \o Flatten([ i \in DOMAIN text.lines |->
                 LineToAsm(text, var_offsets, text.lines[i]) ])

\* ------------------------------------------------------------------------
\* main.py and the __main__ of assembly_generator.py
\* ------------------------------------------------------------------------
VARIABLES
  data,       \* the text of test_code.txt
  pc,         \* where the run is: "trace", "parse", "semantic", "irgen",
              \* "compiled" (main returned with output.ll written), "done"
  lexer,      \* the module-level lexer object: lexpos and lineno
  trace,      \* the tokens main printed in its token loop
  out,        \* the diagnostics printed so far, in order
  parser,     \* the LR parser's statestack, symstack, lookahead, errorcount
  ast,        \* the result of parser.parse(data)
  files,      \* the names of the files written
  output_ll,  \* the text of output.ll
  output_s    \* the assembly written to output.s

vars == << data, pc, lexer, trace, out, parser, ast, files, output_ll, output_s >>

NoText == [ quoted |-> TRUE, lines |-> <<>> ]

\* yacc.LRParser.parse before its loop: the start state on the stack, no
\* lookahead, errorcount 0.
NewParse ==
  [ statestack |-> << 0 >>, symstack |-> <<>>, lookahead |-> NoToken,
    errorcount |-> 0 ]

\* The state after the modules are imported (lex.lex() leaves lineno at 1,
\* yacc.yacc() builds the tables) and test_code.txt is read.
InitWith(source) ==
  /\ data = source
  /\ pc = "trace"
  /\ lexer = [ lexpos |-> 1, lineno |-> 1 ]
  /\ trace = <<>>
  /\ out = <<>>
  /\ parser = NewParse
  /\ ast = NoneNode
  /\ files = {}
  /\ output_ll = NoText
  /\ output_s = <<>>

\* main: one iteration of `for tok in lexer: print(...)'.
TraceToken ==
  /\ pc = "trace"
  /\ LET r == token(data, lexer.lexpos, lexer.lineno, <<>>) IN
     /\ r.tok.type # ""
     /\ trace' = Append(trace, r.tok)
     /\ lexer' = [ lexpos |-> r.lexpos, lineno |-> r.lineno ]
     /\ out' = out \o r.errs
  /\ UNCHANGED << data, pc, parser, ast, files, output_ll, output_s >>

\* main: the token loop ends at the end of the input and parser.parse(data)
\* starts: lexer.input(data) rewinds the shared lexer to the start of the
\* text and leaves its lineno as it is.
TraceEnd ==
  /\ pc = "trace"
  /\ LET r == token(data, lexer.lexpos, lexer.lineno, <<>>) IN
     /\ r.tok.type = ""
     /\ lexer' = [ lexpos |-> 1, lineno |-> r.lineno ]
     /\ out' = out \o r.errs
  /\ pc' = "parse"
  /\ parser' = NewParse
  /\ UNCHANGED << data, trace, ast, files, output_ll, output_s >>

\* The token the parse loop looks at: the lookahead in hand, or the next
\* token of the lexer ($end at the end of the input).
Fetch ==
  IF parser.lookahead.type # ""
    THEN [ tok |-> parser.lookahead, lexpos |-> lexer.lexpos,
           lineno |-> lexer.lineno, errs |-> <<>> ]
    ELSE LET r == token(data, lexer.lexpos, lexer.lineno, <<>>)
         IN  IF r.tok.type = "" THEN [ r EXCEPT !.tok = EndToken ] ELSE r

\* actions[state].get(ltype): 0 accept, > 0 shift, < 0 reduce; NoAction for
\* None.
NoAction == 1000

LookupAction(state, ltype) ==
  IF ltype \in DOMAIN LRAction[state + 1] THEN LRAction[state + 1][ltype]
  ELSE NoAction

Fetched(f) ==
  /\ lexer' = [ lexpos |-> f.lexpos, lineno |-> f.lineno ]
  /\ out' = out \o f.errs

\* parse loop, t > 0: shift the lookahead.
ParseShift ==
  /\ pc = "parse"
  /\ LET f == Fetch
         t == LookupAction(Last(parser.statestack), f.tok.type)
     IN  /\ t > 0 /\ t # NoAction
         /\ Fetched(f)
         /\ parser' = [ statestack |-> Append(parser.statestack, t),
                        symstack   |-> Append(parser.symstack, f.tok.value),
                        lookahead  |-> NoToken,
                        errorcount |-> IF parser.errorcount > 0
                                         THEN parser.errorcount - 1 ELSE 0 ]
  /\ UNCHANGED << data, pc, trace, ast, files, output_ll, output_s >>

\* parse loop, t < 0: reduce by rule -t, calling its p_ function.
ParseReduce ==
  /\ pc = "parse"
  /\ LET f == Fetch
         t == LookupAction(Last(parser.statestack), f.tok.type)
     IN  /\ t < 0
         /\ Fetched(f)
         /\ LET plen  == Productions[-t].len
                n     == Len(parser.symstack)
                targ  == SubSeq(parser.symstack, n - plen + 1, n)
                below == SubSeq(parser.statestack, 1,
                                Len(parser.statestack) - plen)
            IN  parser' =
                  [ statestack |-> Append(below,
                                     LRGoto[Last(below) + 1][Productions[-t].name]),
                    symstack   |-> Append(SubSeq(parser.symstack, 1, n - plen),
                                          p_reduce(-t, targ)),
                    lookahead  |-> f.tok,
                    errorcount |-> parser.errorcount ]
  /\ UNCHANGED << data, pc, trace, ast, files, output_ll, output_s >>

\* parse loop, t = 0: accept; main receives the AST, prints and renders it
\* (ast.pdf) and goes on to the semantic analysis.
ParseAccept ==
  /\ pc = "parse"
  /\ LET f == Fetch
         t == LookupAction(Last(parser.statestack), f.tok.type)
     IN  /\ t = 0
         /\ Fetched(f)
         /\ ast' = Last(parser.symstack)
         /\ parser' = [ parser EXCEPT !.lookahead = f.tok ]
  /\ pc' = "semantic"
  /\ files' = files \cup { "ast.pdf" }
  /\ UNCHANGED << data, trace, output_ll, output_s >>

\* parse loop, t is None: a syntax error.  p_error is called unless fewer
\* than error_count tokens were shifted since the last error.  The grammar
\* has no `error' rule, so PLY then either returns None (at the end of the
\* input; main prints "Parsing failed." and returns) or unwinds the whole
\* stack to the start state, drops the offending token and goes on parsing
\* with the next one.
ParseError ==
  /\ pc = "parse"
  /\ LET f == Fetch
         t == LookupAction(Last(parser.statestack), f.tok.type)
         printed == IF parser.errorcount = 0 THEN << p_error(f.tok) >> ELSE <<>>
     IN  /\ t = NoAction
         /\ lexer' = [ lexpos |-> f.lexpos, lineno |-> f.lineno ]
         /\ IF f.tok.type = "$end"
              THEN /\ out' = out \o f.errs \o printed
                            \o << [ kind |-> "ParsingFailed", what |-> "",
                                    line |-> 0, at |-> "main" ] >>
                   /\ parser' = [ parser EXCEPT !.lookahead = f.tok,
                                                !.errorcount = error_count ]
                   /\ pc' = "done"
              ELSE /\ out' = out \o f.errs \o printed
                   /\ parser' = [ statestack |-> << 0 >>, symstack |-> <<>>,
                                  lookahead |-> NoToken,
                                  errorcount |-> error_count ]
                   /\ pc' = pc
  /\ UNCHANGED << data, trace, ast, files, output_ll, output_s >>

\* main: semantic_check(ast); its diagnostics are printed, nothing else
\* depends on them.
SemanticAnalysis ==
  /\ pc = "semantic"
  /\ out' = out \o SemanticDiags(ast)
  /\ pc' = "irgen"
  /\ UNCHANGED << data, lexer, trace, parser, ast, files, output_ll, output_s >>

\* main: the try block.  generate_ir(ast), then output.ll is written, read
\* back and rewritten as optimized_output.ll; any exception is printed and
\* main returns with nothing written.
GenerateIR ==
  /\ pc = "irgen"
  /\ LET g == generate_ir(ast) IN
     IF g.err = ""
       THEN /\ output_ll' = ModuleText(g)
            /\ files' = files \cup { "output.ll", "optimized_output.ll" }
            /\ out' = out
            /\ pc' = "compiled"
       ELSE /\ out' = Append(out, [ kind |-> "IRError", what |-> g.err,
                                    line |-> 0, at |-> "main" ])
            /\ pc' = "done"
            /\ UNCHANGED << files, output_ll >>
  /\ UNCHANGED << data, lexer, trace, parser, ast, output_s >>

\* assembly_generator.py run on the output.ll that main.py wrote:
\* parse_allocas, ir_to_asm, output.s.  A KeyError from a slot lookup ends
\* the script before anything is written.
AssemblyGenerator ==
  /\ pc = "compiled"
  /\ "output.ll" \in files
  /\ LET asm == ir_to_asm(output_ll, parse_allocas(output_ll)) IN
     IF \E i \in DOMAIN asm : asm[i].op = "KeyError"
       THEN UNCHANGED << files, output_s >>
       ELSE /\ output_s' = asm
            /\ files' = files \cup { "output.s" }
  /\ pc' = "done"
  /\ UNCHANGED << data, lexer, trace, out, parser, ast, output_ll >>

Next ==
  \/ TraceToken
  \/ TraceEnd
  \/ ParseShift
  \/ ParseReduce
  \/ ParseAccept
  \/ ParseError
  \/ SemanticAnalysis
  \/ GenerateIR
  \/ AssemblyGenerator

\* ------------------------------------------------------------------------
\* Source texts
\* ------------------------------------------------------------------------
\* The fragments of s, each followed by a blank, as one text.
RECURSIVE JoinFrom(_, _)
JoinFrom(s, i) == IF i > Len(s) THEN "" ELSE s[i] \o " " \o JoinFrom(s, i + 1)

Join(s) == JoinFrom(s, 1)

\* All sequences over S of length 1..n
SeqsUpTo(S, n) == UNION { [ 1..k -> S ] : k \in 1..n }

\* Programs made of up to MaxFragments statements of the language.
Fragments ==
  { "int a = 1;",
    "int z;",
    "z = a;",
    "z;",
    "if (a) { int a = a; }",
    "if (a > 1) { return a; }",
    "function f(int x) -> int { if (x) { return 1; } return x; }",
    "function g(int y) -> int { return a; }",
    "int r = f(a);",
    "return a;" }

MaxFragments == 3

FragmentSources == { Join(s) : s \in SeqsUpTo(Fragments, MaxFragments) }

\* One expression statement with two binary operators and no parentheses.
BinaryOperators == { "+", "-", "*", "/", ">" }

ExprSource(op1, op2) == "a " \o op1 \o " b " \o op2 \o " c;"

ExprSources == { ExprSource(op1, op2) : op1, op2 \in BinaryOperators }

\* One `if' statement, without and with an else-arm.
Conditions == { "a", "a > b" }

Bodies == { "b;", "return a;" }

IfSource(c, s1) == "if (" \o c \o ") { " \o s1 \o " }"

IfElseSource(c, s1, s2) == IfSource(c, s1) \o " else { " \o s2 \o " }"

IfOnlySources == { IfSource(c, s1) : c \in Conditions, s1 \in Bodies }

IfElseSources ==
  { IfElseSource(c, s1, s2) : c \in Conditions, s1, s2 \in Bodies }

\* Texts with something inserted in the middle of a statement: nothing, an
\* illegal character or two, a line break, a stray token.
Prefixes == { "int a = ", "int a = 1;\nint b = ", "a = a + " }

Inserts == { "", "$", "$$", "\n", "\n$", "$\n@", "=", "else", ";" }

Suffixes == { "1;", "2;\na;", "a;\n\nint c = 3;" }

InsertSources ==
  { p \o x \o s : p \in Prefixes, x \in Inserts, s \in Suffixes }

Sources ==
  FragmentSources \cup ExprSources \cup IfOnlySources \cup IfElseSources
    \cup InsertSources

Init == \E source \in Sources : InitWith(source)

Spec == Init /\ [][Next]_vars

\* ------------------------------------------------------------------------
\* Properties
\* ------------------------------------------------------------------------
\* parser.parse(data) has returned.
ParseFinished == pc \notin { "trace", "parse" }

\* semantic_check(ast) has run (on the AST the parser returned).
SemanticDone == ast.nodetype = "program" /\ pc \in { "irgen", "compiled", "done" }

\* generate_ir(ast) has run.
LoweringDone == ast.nodetype = "program" /\ pc \in { "compiled", "done" }

\* The lines of out printed by the analyzer.
SemanticSites == { "declaration", "identifier", "assignment", "function_decl", "param" }

SemanticOut == SelectSeq(out, LAMBDA d : d.at \in SemanticSites)

\* The places of a program where names are declared and used, in source
\* order: "decl" for a declaration with initializer, a function name or a
\* parameter, "noinit" for a declaration without initializer, "use" for an
\* identifier reference, "assign" for an assignment target, and "open" and
\* "close" around the body of a function (after its name, before its
\* parameters) and around the block of an `if'.
Event(e, n) == [ e |-> e, n |-> n ]

RECURSIVE EventsOf(_)
RECURSIVE EventsOfAll(_)

EventsOfAll(nodes) ==
  IF nodes = <<>> THEN <<>> ELSE EventsOf(Head(nodes)) \o EventsOfAll(Tail(nodes))

EventsOf(node) ==
  CASE node.nodetype \in { "program", "block" } -> EventsOfAll(node.children)
    [] node.nodetype = "declaration" ->
         IF node.children[1].nodetype = "init"
           THEN << Event("decl", node.leaf) >> \o EventsOf(node.children[1].children[1])
           ELSE << Event("noinit", node.leaf) >>
    [] node.nodetype = "assignment" ->
         << Event("assign", node.children[1].leaf) >> \o EventsOf(node.children[2])
    [] node.nodetype = "identifier" -> << Event("use", node.leaf) >>
    [] node.nodetype = "binary_op" ->
         EventsOf(node.children[1]) \o EventsOf(node.children[2])
    [] node.nodetype \in { "expression_statement", "return" } ->
         EventsOf(node.children[1])
    [] node.nodetype = "if" ->
         EventsOf(node.children[1]) \o << Event("open", "") >>
           \o EventsOf(node.children[2]) \o << Event("close", "") >>
    [] node.nodetype = "function_decl" ->
         << Event("decl", node.leaf), Event("open", "") >>
           \o [ i \in DOMAIN node.children[1] |->
                  Event("decl", node.children[1][i].leaf) ]
           \o << Event("open", "") >>
           \o EventsOf(node.children[3])
           \o << Event("close", ""), Event("close", "") >>
    [] node.nodetype = "funccall" -> EventsOfAll(node.children[1])
    [] OTHER -> <<>>

\* Nesting depth after the first k events.
Depth(ev, k) ==
  Cardinality({ j \in 1..k : ev[j].e = "open" })
    - Cardinality({ j \in 1..k : ev[j].e = "close" })

\* The scope that event j is in is still open at event i >= j.
Encloses(ev, j, i) == \A k \in j..i : Depth(ev, k) >= Depth(ev, j)

\* Event i refers to a name with no visible initialized declaration.
Offending(ev, i) ==
  /\ ev[i].e \in { "use", "assign" }
  /\ ~ \E j \in 1..(i - 1) :
         ev[j].e = "decl" /\ ev[j].n = ev[i].n /\ Encloses(ev, j, i)

\* Event i declares a name already declared in the same scope.
Redeclares(ev, i) ==
  /\ ev[i].e = "decl"
  /\ \E j \in 1..(i - 1) :
       /\ ev[j].e = "decl" /\ ev[j].n = ev[i].n
       /\ Depth(ev, j) = Depth(ev, i) /\ Encloses(ev, j, i)

Indices(s) == [ i \in 1..Len(s) |-> i ]

\* The names of the offending uses, in source order.
OffendingNames(ev) ==
  LET idx == SelectSeq(Indices(ev), LAMBDA i : Offending(ev, i))
  IN  [ k \in DOMAIN idx |-> ev[idx[k]].n ]

\* The names in the diagnostics printed for references and assignments.
UseDiagNames ==
  LET ds == SelectSeq(out, LAMBDA d : d.at \in { "identifier", "assignment" })
  IN  [ k \in DOMAIN ds |-> ds[k].what ]

\* ---- C1 -----------------------------------------------------------------
\* The conditional branches of an IR text, in order.
CondBranches(text) == SelectSeq(text.lines, LAMBDA l : l.kind = "cbr")

\* The positions of the jump-if-zero lines of an assembly text, in order.
JumpIfZero(asm) == SelectSeq(Indices(asm), LAMBDA i : asm[i].op = "je")

\* C1: for every conditional branch `br i1 %c, label %T, label %E' of the IR
\* the backend emits a jump to E taken when the accumulator is zero,
\* followed by a jump to T: the k-th je/jmp pair of output.s carries the
\* labels of the k-th conditional branch of output.ll.
C1_BranchTargetsAreOperands ==
  "output.s" \in files =>
    LET cb == CondBranches(output_ll)
        je == JumpIfZero(output_s)
    IN  /\ Len(je) = Len(cb)
        /\ \A k \in DOMAIN cb :
             /\ output_s[je[k]] = Asm("je", cb[k].ops[3].name, "")
             /\ output_s[je[k] + 1] = Asm("jmp", cb[k].ops[2].name, "")

\* ---- C2 -----------------------------------------------------------------
\* The labels of the blocks that _generate_if appended: every label line of
\* the IR except the one that opens a function (its entry block).
IfLabels(text) ==
  LET idx == SelectSeq(Indices(text.lines),
               LAMBDA i : text.lines[i].kind = "label"
                          /\ text.lines[i - 1].kind # "lbrace")
  IN  [ k \in DOMAIN idx |-> text.lines[idx[k]].name ]

\* The number of `if' statements of a program, nested ones included.
RECURSIVE CountIfs(_)
RECURSIVE CountIfsAll(_)

CountIfsAll(nodes) ==
  IF nodes = <<>> THEN 0 ELSE CountIfs(Head(nodes)) + CountIfsAll(Tail(nodes))

CountIfs(node) ==
  CASE node.nodetype \in { "program", "block" } -> CountIfsAll(node.children)
    [] node.nodetype = "if" -> 1 + CountIfsAll(Tail(node.children))
    [] node.nodetype = "function_decl" -> CountIfs(node.children[3])
    [] OTHER -> 0

\* C2: a lowered module with N `if' statements has 3 x N distinct if-labels.
C2_LabelsGloballyUnique ==
  (LoweringDone /\ "output.ll" \in files) =>
    Cardinality(Range(IfLabels(output_ll))) = 3 * CountIfs(ast)

\* ---- C3 -----------------------------------------------------------------
\* The parser has reported a syntax error.
SyntaxErrorReported == \E i \in DOMAIN out : out[i].at = "p_error"

\* C3: once a syntax error is reported there is no AST, the run does not
\* reach the semantic analysis or the IR generation, and no IR file is
\* written.
C3_ParseAllOrNothing ==
  SyntaxErrorReported =>
    /\ ast.nodetype = "None"
    /\ pc \in { "parse", "done" }
    /\ files \cap { "output.ll", "optimized_output.ll" } = {}

\* ---- C4 -----------------------------------------------------------------
Id(name) == ASTNode("identifier", <<>>, name)

BinOp(op, l, r) == ASTNode("binary_op", << l, r >>, op)

ExprProgram(e) ==
  ASTNode("program", << ASTNode("expression_statement", << e >>, NoLeaf) >>, NoLeaf)

\* C4: `a op1 b op2 c' parses to binary_op(op2, binary_op(op1, a, b), c).
C4_LeftAssociative ==
  \A op1, op2 \in BinaryOperators :
    (ParseFinished /\ data = ExprSource(op1, op2)) =>
      ast = ExprProgram(BinOp(op2, BinOp(op1, Id("a"), Id("b")), Id("c")))

\* ---- C5 -----------------------------------------------------------------
\* The AST is a program of one `if' statement with n children.
OneIfWith(n) ==
  /\ ast.nodetype = "program"
  /\ Len(ast.children) = 1
  /\ ast.children[1].nodetype = "if"
  /\ Len(ast.children[1].children) = n
  /\ \A k \in 2..n : ast.children[1].children[k].nodetype = "block"

\* C5: an `if' without else-arm parses to an `if' node of two children, an
\* `if' followed by `else { ... }' to one of three children, and the run
\* goes on to the later stages in both cases.
C5_IfWithOptionalElse ==
  ParseFinished =>
    /\ data \in IfOnlySources => OneIfWith(2)
    /\ data \in IfElseSources => OneIfWith(3)

\* ---- C6, C7 -------------------------------------------------------------
\* Every variable is declared with an initializer before every use and
\* assignment of it that is in scope: no declaration lacks its initializer
\* and no reference or assignment is offending.
DeclaredBeforeUse(ev) ==
  /\ \A i \in DOMAIN ev : ev[i].e # "noinit"
  /\ \A i \in DOMAIN ev : ~ Offending(ev, i)

\* No name is declared twice in one scope (the top level, the parameter
\* list of one function, one block).
NoRedeclaration(ev) == \A i \in DOMAIN ev : ~ Redeclares(ev, i)

\* C6 as stated: a declare-before-use program gets no diagnostic from
\* semantic_check, whether or not it declares a name more than once.
C6_DeclareBeforeUseIsSilent ==
  (SemanticDone /\ DeclaredBeforeUse(EventsOf(ast))) => SemanticOut = <<>>

\* C6, amended: a declare-before-use program that declares no name twice
\* in the same scope gets no diagnostic from semantic_check; a name may be
\* declared again in a nested scope, and functions may be declared.
C6_DeclareBeforeUseIsSilent_Amended ==
  LET ev == EventsOf(ast) IN
  (SemanticDone /\ DeclaredBeforeUse(ev) /\ NoRedeclaration(ev)) =>
    SemanticOut = <<>>

\* A silent analysis of a declare-before-use program that declares a name
\* again in a nested scope and reads it there.
C6_Witness ==
  LET ev == EventsOf(ast) IN
  /\ SemanticDone /\ DeclaredBeforeUse(ev) /\ NoRedeclaration(ev)
  /\ SemanticOut = <<>>
  /\ \E i, j, k \in DOMAIN ev :
       /\ i < j /\ j < k
       /\ ev[i].e = "decl" /\ ev[j].e = "decl" /\ ev[k].e = "use"
       /\ ev[i].n = ev[j].n /\ ev[j].n = ev[k].n
       /\ Depth(ev, i) < Depth(ev, j) /\ Encloses(ev, j, k)

\* C7: the diagnostics that semantic_check prints for references and
\* assignments are, in order, one per offending use: a reference or an
\* assignment target whose name has no visible initialized declaration.
C7_OneDiagnosticPerOffendingUse ==
  SemanticDone => UseDiagNames = OffendingNames(EventsOf(ast))

\* An analysis that flagged an offending use and passed a reference to a
\* name declared in an enclosing scope.
C7_Witness ==
  LET ev == EventsOf(ast) IN
  /\ SemanticDone
  /\ UseDiagNames # <<>>
  /\ UseDiagNames = OffendingNames(ev)
  /\ \E j, i \in DOMAIN ev :
       /\ j < i /\ ev[j].e = "decl" /\ ev[i].e \in { "use", "assign" }
       /\ ev[j].n = ev[i].n /\ Depth(ev, j) < Depth(ev, i) /\ Encloses(ev, j, i)

\* ---- C8 -----------------------------------------------------------------
\* The first mention of name n in the program is a top-level declaration
\* without initializer and the next one is an assignment to n.
DeclaredThenAssigned(ev, n) ==
  \E j, k \in DOMAIN ev :
    /\ j < k
    /\ ev[j] = Event("noinit", n) /\ Depth(ev, j) = 0
    /\ ev[k] = Event("assign", n)
    /\ \A i \in 1..(k - 1) : i # j => ev[i].n # n

\* C8: after `int z;' a later assignment to z prints nothing and marks z
\* initialized, so neither it nor any later read of z is diagnosed.
C8_AssignmentAfterBareDeclaration ==
  LET ev == EventsOf(ast) IN
  SemanticDone =>
    \A n \in { ev[i].n : i \in DOMAIN ev } :
      DeclaredThenAssigned(ev, n) =>
        /\ \E i \in DOMAIN out :
             out[i] = Diag("NotInitialized", n, "declaration")
        /\ \A i \in DOMAIN out :
             ~ (out[i].what = n /\ out[i].at \in { "assignment", "identifier" })

\* ---- C9 -----------------------------------------------------------------
\* The characters no token rule accepts.
Blank == { " ", "\t", "\n" }

IllegalAt(text) ==
  { i \in 1..Len(text) :
      Ch(text, i) \notin Letters \cup Digits \cup Blank \cup DOMAIN SimpleTokens }

\* C9: the run of a text with a single illegal character prints exactly one
\* lexical diagnostic, naming that character, and parses the rest to an AST.
C9_OneLexicalDiagnostic ==
  (ParseFinished /\ Cardinality(IllegalAt(data)) = 1) =>
    /\ LET lex == SelectSeq(out, LAMBDA d : d.at = "t_error")
       IN  /\ Len(lex) = 1
           /\ \A i \in IllegalAt(data) : lex[1].what = Ch(data, i)
    /\ ast.nodetype = "program"

\* ---- C10 ----------------------------------------------------------------
\* The function declared by top-level statement i lowers without error
\* when it is the whole program.
LowersAlone(i) ==
  /\ ast.children[i].nodetype = "function_decl"
  /\ generate_ir(ASTNode("program", << ast.children[i] >>, NoLeaf)).err = ""

\* C10: every function of the program that lowers without error is in the
\* IR module the run produces, whatever happens to the other functions.
C10_LoweringErrorIsLocal ==
  LoweringDone =>
    \A i \in DOMAIN ast.children :
      LowersAlone(i) =>
        /\ "output.ll" \in files
        /\ \E k \in DOMAIN output_ll.lines :
             /\ output_ll.lines[k].kind = "define"
             /\ output_ll.lines[k].name = ast.children[i].leaf

\* ------------------------------------------------------------------------
\* assembly_generator.py on an output.ll written in the plain line grammar
\* ------------------------------------------------------------------------
\* The script reads whatever output.ll holds.  These texts follow the line
\* grammar with bare names ( %a, @f ) and the opening brace on the `define'
\* line: a function main and, optionally, a function f, each with its
\* allocas, one store per variable, a short body and `ret i32 0'.
MaxSlots == 3

MainNames == << "a", "b", "c", "d" >>

OtherNames == << "x", "y", "z", "w" >>

ArithKinds == { "add", "sub", "mul", "sdiv" }

\* %r = call i32 @f(i32 %v1, ..., i32 %vn)
CallLine(vs, n) ==
  << Instr("call", "r", "f", [ i \in 1..n |-> Value(vs[i]) ]) >>

\* %t = load i32, i32* %v1 ; %u = load i32, i32* %v2 ; %r = <op> i32 %t, %u
ArithLines(vs, op) ==
  << Instr("load", "t", "", << Value(vs[1]) >>),
     Instr("load", "u", "", << Value(vs[2]) >>),
     Instr(op, "r", "", << Value("t"), Value("u") >>) >>

HandBodies(vs) ==
  { <<>> }
    \cup { CallLine(vs, n) : n \in 0..Len(vs) }
    \cup (IF Len(vs) >= 2 THEN { ArithLines(vs, op) : op \in ArithKinds }
          ELSE {})

HandFunction(name, vs, body) ==
  << Instr("define_brace", "", name, <<>>), Instr("label", "", "entry", <<>>) >>
    \o [ i \in DOMAIN vs |-> Instr("alloca", vs[i], "", <<>>) ]
    \o [ i \in DOMAIN vs |->
           Instr("store", "", "", << Const(i), Value(vs[i]) >>) ]
    \o body
    \o << Instr("ret", "", "", << Const(0) >>), Instr("rbrace", "", "", <<>>) >>

HandFunctions(name, names) ==
  UNION { { HandFunction(name, SubSeq(names, 1, k), b) :
              b \in HandBodies(SubSeq(names, 1, k)) } : k \in 0..MaxSlots }

HandTexts ==
  { [ quoted |-> FALSE, lines |-> m \o f ] :
      m \in HandFunctions("main", MainNames),
      f \in { <<>> } \cup HandFunctions("f", OtherNames) }

\* output.ll is in place and the script is started.
BackendInit ==
  \E text \in HandTexts :
    /\ data = ""
    /\ pc = "compiled"
    /\ lexer = [ lexpos |-> 1, lineno |-> 1 ]
    /\ trace = <<>>
    /\ out = <<>>
    /\ parser = NewParse
    /\ ast = NoneNode
    /\ files = { "output.ll" }
    /\ output_ll = text
    /\ output_s = <<>>

BackendSpec == BackendInit /\ [][AssemblyGenerator]_vars

\* The lines of an IR text of one kind, in order.
LinesOfKind(text, K) == SelectSeq(text.lines, LAMBDA l : l.kind \in K)

\* The instructions of an assembly text with one opcode, in order.
AsmOf(asm, op) == SelectSeq(asm, LAMBDA a : a.op = op)

\* ---- C11 ----------------------------------------------------------------
\* C11: a call line with more than two arguments is answered with a
\* diagnostic and not with a call: output.s has one `call' per call line of
\* at most two arguments and one diagnostic per call line of more.
C11_WideCallsDiagnosed ==
  "output.s" \in files =>
    LET calls == LinesOfKind(output_ll, { "call" })
        wide  == SelectSeq(calls, LAMBDA l : Len(l.ops) > 2)
    IN  /\ Len(AsmOf(output_s, "call")) = Len(calls) - Len(wide)
        /\ Len(SelectSeq(output_s,
                 LAMBDA a : a.op = "comment" /\ a.b = "call")) = Len(wide)

\* ---- C12 ----------------------------------------------------------------
ArgumentRegisters == << "edi", "esi" >>

\* C12: for a call line with one or two arguments, the instructions right
\* before its `call' load the arguments, in order, into edi and esi, each
\* from the slot that the slot table gives to the argument's variable.
C12_ArgumentsLoadedFromTheirSlots ==
  "output.s" \in files =>
    LET calls == LinesOfKind(output_ll, { "call" })
        at    == SelectSeq(Indices(output_s), LAMBDA k : output_s[k].op = "call")
        slots == parse_allocas(output_ll)
    IN  /\ Len(at) = Len(calls)
        /\ \A c \in DOMAIN calls :
             LET n == Len(calls[c].ops) IN
             n \in 1..2 =>
               \A i \in 1..n :
                 output_s[at[c] - n + i - 1] =
                   Asm("mov", ArgumentRegisters[i],
                       "DWORD " \o Slot(slots[calls[c].ops[i].name]))

\* ---- C13 ----------------------------------------------------------------
\* The number of operand spills (a push of anything but the frame pointer
\* that the prologue saves) and of pops among the first k instructions.
Spills(asm, k) ==
  Cardinality({ j \in 1..k : asm[j].op = "push" /\ asm[j].a # "rbp" })

Pops(asm, k) == Cardinality({ j \in 1..k : asm[j].op = "pop" })

\* C13: every arithmetic line spills its left operand with a push, every
\* pop comes after a push that it matches, and pushes and pops balance.
C13_PushesMatchPops ==
  "output.s" \in files =>
    /\ Len(LinesOfKind(output_ll, ArithKinds)) <= Spills(output_s, Len(output_s))
    /\ \A k \in DOMAIN output_s : Pops(output_s, k) <= Spills(output_s, k)
    /\ Pops(output_s, Len(output_s)) = Spills(output_s, Len(output_s))

\* ---- C14 ----------------------------------------------------------------
\* C14: the slot table is per function.  The d-th function of output.ll,
\* with k allocas of its own, has the prologue `sub rsp, 8k', and its i-th
\* variable has the offset -8i.
C14_SlotTablePerFunction ==
  "output.s" \in files =>
    LET lines == output_ll.lines
        fn(i) == Cardinality({ j \in 1..i : lines[j].kind = "define_brace" })
        own(d) == SelectSeq(Indices(lines),
                            LAMBDA i : IsAlloca(lines[i]) /\ fn(i) = d)
        subs  == SelectSeq(output_s, LAMBDA a : a.op = "sub" /\ a.a = "rsp")
        slots == parse_allocas(output_ll)
    IN  /\ Len(subs) = fn(Len(lines))
        /\ \A d \in DOMAIN subs :
             /\ subs[d].b = ToString(8 * Len(own(d)))
             /\ \A i \in DOMAIN own(d) : slots[lines[own(d)[i]].dst] = -8 * i

\* ---- C15 ----------------------------------------------------------------
\* C15: in the module that lowering writes, the last instruction of every
\* function (the line before its closing brace) is a return.
C15_EveryFunctionEndsInReturn ==
  (LoweringDone /\ "output.ll" \in files) =>
    \A k \in DOMAIN output_ll.lines :
      output_ll.lines[k].kind = "rbrace" => output_ll.lines[k - 1].kind = "ret"

\* ---- C16 ----------------------------------------------------------------
\* generate_ir(ast) stopped on a name it could not resolve (a variable that
\* is not in its symbol table, a function that is not in its function
\* table).
NameErrorPrinted ==
  \E i \in DOMAIN out : out[i].kind = "IRError" /\ out[i].what = "ValueError"

\* C16: the analyzer and the generator agree on name resolution.  A program
\* with no diagnostic from semantic_check is lowered without a name error,
\* and a program that is lowered without error has no "not declared"
\* diagnostic.
C16_AnalyzerAndGeneratorAgree ==
  LoweringDone =>
    /\ SemanticOut = <<>> => ~NameErrorPrinted
    /\ "output.ll" \in files =>
         \A i \in DOMAIN SemanticOut : SemanticOut[i].kind # "NotDeclared"

\* ---- C17 ----------------------------------------------------------------
\* C17: the line printed by p_error is the source line of the offending
\* token: one more than the number of newlines before it.  (The lexer
\* stands just behind that token when the line is printed, and no token
\* holds a newline.)
C17_SyntaxErrorLineIsSourceLine ==
  [][ \A i \in DOMAIN out' :
        (i > Len(out) /\ out'[i].kind = "SyntaxError") =>
          out'[i].line = 1 + CountNewlines(data, 1, lexer'.lexpos) ]_vars

====
